---- MODULE Spec2Model ----
(***************************************************************************)
(* Nested-transaction sessions over one SQLite table (arcade_store).       *)
(* State: each session's layer stack, the committed table, each thread's   *)
(* connection (open transaction and its uncommitted view), the commit log  *)
(* file, the operation each thread is executing and the result of the     *)
(* call that finished last.                                                *)
(***************************************************************************)
EXTENDS Integers, Sequences, FiniteSets, TLC

\* ---- bounds of the model ----
NumKeys == 2
NumVals == 2
NumSessions == 2
NumThreads == 2
MaxOps == 4
MaxOpsSeq == 6
MaxOpsStaged == 2
MaxOpsApi == 3

Keys == 1..NumKeys
Sessions == 1..NumSessions
Threads == 1..NumThreads

\* ---- values ----
\* Python None: what get returns for a missing key
None == 0
\* A value json.dumps rejects with TypeError (a set, bytes, an object)
Obj == NumVals + 1
\* JSON-native values (numbers here): json.loads(json.dumps(v)) = v
JsonVals == 1..NumVals
Values == JsonVals \cup {Obj}
\* The text stored in the value column is not the value: "1" versus 1
EncBase == 100

Serializable(v) == v \in JsonVals

Dumps(v) == EncBase + v

Loads(e) == e - EncBase

\* ---- finite maps (Python dicts, table rows) as functions on a set of keys ----
Empty == [k \in {} |-> None]

Put(m, k, v) == [x \in (DOMAIN m) \cup {k} |-> IF x = k THEN v ELSE m[x]]

Drop(m, k) == [x \in (DOMAIN m) \ {k} |-> m[x]]

\* sorted(deletes): the keys of a set in increasing order
RECURSIVE Sorted(_)
Sorted(S) ==
    IF S = {} THEN <<>>
    ELSE LET m == CHOOSE x \in S : \A y \in S : x <= y
         IN <<m>> \o Sorted(S \ {m})

VARIABLES
    stack,      \* stack[s]: Session._stack, a sequence of layers, top last
    store,      \* committed rows of arcade_store: key -> encoded value
    conn,       \* conn[t]: thread t's SQLite connection
    log,        \* the records of store_commits.txt, in file order
    pc,         \* pc[t]: the call thread t is executing, and how far it got
    ret,        \* what the call that finished last returned or raised, and to whom
    left,       \* calls that may still be started (bounds the exploration)
    beginStack, \* history: beginStack[s][i] = the stack of s when its layer i was begun
    live        \* history: live[s][k] = the value of the last set(k, .) that s staged
                \* and has not since set again, deleted or rolled back, with the
                \* layer now holding it (0: it has left the stack by a commit)

vars == <<stack, store, conn, log, pc, ret, left, beginStack, live>>

\* ---- layers ----
NewLayer == [writes |-> Empty, deleted |-> {}]

depth(s) == Len(stack[s])

\* ---- connections ----
\* mode: "none" (no transaction), "deferred" (a transaction is open, nothing
\* read or written yet), "read" (open, view = the WAL snapshot its first SELECT
\* took), "write" (open, holds the write lock, view = the snapshot plus its own
\* uncommitted changes)
CleanConn == [mode |-> "none", view |-> Empty]

\* rows as connection t sees them
RowsSeen(t) == IF conn[t].mode \in {"read", "write"} THEN conn[t].view ELSE store

\* faulty variant: a database that lets every writer in
CanWriteAlways(t) == TRUE

\* a write statement on connection t gets the write lock: no other connection
\* holds it, and a snapshot t already reads from is still the latest
CanWrite(t) ==
    /\ \A u \in Threads \ {t} : conn[u].mode # "write"
    /\ conn[t].mode = "read" => conn[t].view = store

\* the connection after a SELECT: inside an open transaction the first read
\* pins the snapshot
AfterSelect(t) ==
    IF conn[t].mode = "deferred" THEN [mode |-> "read", view |-> store] ELSE conn[t]

Idle == [phase |-> "idle", op |-> "none", s |-> 0, key |-> 0, val |-> None,
         W |-> Empty, D |-> {}, todo |-> {}]

ThreadIdle(t) == pc[t].phase = "idle"

SessionIdle(s) == \A t \in Threads : pc[t].s # s

\* ---- results of calls ----
Ok(s, op) == [s |-> s, op |-> op, kind |-> "ok", val |-> None]

Returned(s, op, v) == [s |-> s, op |-> op, kind |-> "value", val |-> v]

Raised(s, op, e) == [s |-> s, op |-> op, kind |-> e, val |-> None]

\* ---- Store: SQL helpers, run on the calling thread's connection ----
DbGet(t, k) ==
    IF k \in DOMAIN RowsSeen(t) THEN Loads(RowsSeen(t)[k]) ELSE None

\* faulty variant: an insert that leaves an existing row as it is
DbSetIgnoresConflict(t, k, v) ==
    [mode |-> "write",
     view |-> IF k \in DOMAIN RowsSeen(t) THEN RowsSeen(t)
              ELSE Put(RowsSeen(t), k, Dumps(v))]

\* the connection after the upsert: it now holds the write lock
DbSet(t, k, v) == [mode |-> "write", view |-> Put(RowsSeen(t), k, Dumps(v))]

\* faulty variant: a DELETE that removes no row
DbDeleteKeeps(t, k) == [mode |-> "write", view |-> RowsSeen(t)]

\* the connection after the DELETE (a write statement even if no row matched)
DbDelete(t, k) == [mode |-> "write", view |-> Drop(RowsSeen(t), k)]

\* a write statement that gives up after busy_timeout: the transaction the
\* sqlite3 module opened for it stays open, with no lock and no change
BusyConn(t) == [conn[t] EXCEPT !.mode = IF @ = "none" THEN "deferred" ELSE @]

\* faulty variant: a record that leaves the deleted keys out
LogRecordDropsDeletes(type, writes, deletes) ==
    [type |-> type,
     writes |-> [k \in DOMAIN writes |-> Dumps(writes[k])],
     deletes |-> <<>>]

\* the record's type, writes and deletes (its timestamp and thread name are not kept)
LogRecord(type, writes, deletes) ==
    [type |-> type,
     writes |-> [k \in DOMAIN writes |-> Dumps(writes[k])],
     deletes |-> Sorted(deletes)]

\* faulty variant: a scan that never looks at a layer's deleted set
RECURSIVE ScanIgnoresDeleted(_, _, _)
ScanIgnoresDeleted(st, i, k) ==
    IF i = 0 THEN [hit |-> FALSE, val |-> None]
    ELSE IF k \in DOMAIN st[i].writes THEN [hit |-> TRUE, val |-> st[i].writes[k]]
    ELSE ScanIgnoresDeleted(st, i - 1, k)

\* ---- Session.get: scan the stack top down, then the database ----
RECURSIVE Scan(_, _, _)
Scan(st, i, k) ==
    IF i = 0 THEN [hit |-> FALSE, val |-> None]
    ELSE IF k \in st[i].deleted THEN [hit |-> TRUE, val |-> None]
    ELSE IF k \in DOMAIN st[i].writes THEN [hit |-> TRUE, val |-> st[i].writes[k]]
    ELSE Scan(st, i - 1, k)

get(s, t, k) ==
    LET r == Scan(stack[s], Len(stack[s]), k)
    IN IF r.hit THEN r.val ELSE DbGet(t, k)

\* faulty variant: a first merge loop that leaves the parent's write in place
RECURSIVE MergeDeletedKeepsWrites(_, _)
MergeDeletedKeepsWrites(parent, todo) ==
    IF todo = {} THEN parent
    ELSE LET k == CHOOSE x \in todo : TRUE
             p == [writes |-> parent.writes,
                   deleted |-> parent.deleted \cup {k}]
         IN MergeDeletedKeepsWrites(p, todo \ {k})

\* ---- Session.commit, inner: the two merge loops ----
RECURSIVE MergeDeleted(_, _)
MergeDeleted(parent, todo) ==
    IF todo = {} THEN parent
    ELSE LET k == CHOOSE x \in todo : TRUE
             p == [writes |-> Drop(parent.writes, k),
                   deleted |-> parent.deleted \cup {k}]
         IN MergeDeleted(p, todo \ {k})

\* faulty variant: a second merge loop that leaves the parent's tombstone in place
RECURSIVE MergeWritesKeepsDeleted(_, _, _)
MergeWritesKeepsDeleted(parent, top_writes, todo) ==
    IF todo = {} THEN parent
    ELSE LET k == CHOOSE x \in todo : TRUE
             p == [writes |-> Put(parent.writes, k, top_writes[k]),
                   deleted |-> parent.deleted]
         IN MergeWritesKeepsDeleted(p, top_writes, todo \ {k})

RECURSIVE MergeWrites(_, _, _)
MergeWrites(parent, top_writes, todo) ==
    IF todo = {} THEN parent
    ELSE LET k == CHOOSE x \in todo : TRUE
             p == [writes |-> Put(parent.writes, k, top_writes[k]),
                   deleted |-> parent.deleted \ {k}]
         IN MergeWrites(p, top_writes, todo \ {k})

\* faulty variant: a merge that runs the first loop only
MergeDeletedOnly(parent, top) == MergeDeleted(parent, top.deleted)

Merge(parent, top) ==
    MergeWrites(MergeDeleted(parent, top.deleted), top.writes, DOMAIN top.writes)

\* faulty variant: a pop that leaves the layer on the stack
PopKeep(st) == st

Pop(st) == SubSeq(st, 1, Len(st) - 1)

Top(st) == st[Len(st)]

\* "if self._stack:" after the pop: a parent layer remains
HasParent(st) == Len(st) >= 2

\* faulty variant: a staged delete that empties the layer's writes
StageDeleteClearsWrites(layer, k) ==
    [writes |-> Empty, deleted |-> layer.deleted \cup {k}]

\* faulty variant: a staged set that leaves the key's tombstone in place
StageSetKeepsDeleted(layer, k, v) ==
    [writes |-> Put(layer.writes, k, v), deleted |-> layer.deleted]

\* ---- Session.set / Session.delete inside a transaction: the top layer after ----
StageSet(layer, k, v) ==
    [writes |-> Put(layer.writes, k, v), deleted |-> layer.deleted \ {k}]

StageDelete(layer, k) ==
    [writes |-> Drop(layer.writes, k), deleted |-> layer.deleted \cup {k}]

\* ---- history kept for the properties (no code reads it) ----
LiveDrop(s, k) == [live EXCEPT ![s] = Drop(@, k)]

LiveSet(s, k, v) == [live EXCEPT ![s] = Put(@, k, [val |-> v, lvl |-> Len(stack[s])])]

\* the layer at depth d is rolled back: the sets it holds are gone
LiveRollback(s) ==
    [live EXCEPT ![s] =
        [k \in {x \in DOMAIN @ : @[x].lvl # Len(stack[s])} |-> @[k]]]

\* the layer at depth d is committed: what it holds moves one layer down
LiveCommit(s) ==
    [live EXCEPT ![s] =
        [k \in DOMAIN @ |-> IF @[k].lvl = Len(stack[s])
                            THEN [@[k] EXCEPT !.lvl = Len(stack[s]) - 1] ELSE @[k]]]

\* ---- calls that only touch the session's stack ----
CanStart(s, t) == ThreadIdle(t) /\ SessionIdle(s)

\* faulty variant: one stack shared by every session (a class attribute), so a
\* begin pushes a layer for all of them
BeginShared(s, t) ==
    /\ CanStart(s, t)
    /\ left > 0
    /\ stack' = [x \in Sessions |-> Append(stack[x], NewLayer)]
    /\ ret' = Ok(s, "begin")
    /\ left' = left - 1
    /\ beginStack' = [beginStack EXCEPT ![s] = Append(@, stack[s])]
    /\ UNCHANGED <<store, conn, log, pc, live>>

Begin(s, t) ==
    /\ CanStart(s, t)
    /\ left > 0
    /\ stack' = [stack EXCEPT ![s] = Append(@, NewLayer)]
    /\ ret' = Ok(s, "begin")
    /\ left' = left - 1
    /\ beginStack' = [beginStack EXCEPT ![s] = Append(@, stack[s])]
    /\ UNCHANGED <<store, conn, log, pc, live>>

\* faulty variant: a rollback without the depth check
RollbackUnchecked(s, t) ==
    /\ CanStart(s, t)
    /\ left > 0
    /\ stack' = [stack EXCEPT ![s] = Pop(@)]
    /\ ret' = Ok(s, "rollback")
    /\ beginStack' = [beginStack EXCEPT ![s] = SubSeq(@, 1, Len(@) - 1)]
    /\ live' = LiveRollback(s)
    /\ left' = left - 1
    /\ UNCHANGED <<store, conn, log, pc>>

\* faulty variant: a rollback that folds the top layer into its parent
RollbackMerges(s, t) ==
    /\ CanStart(s, t)
    /\ left > 0
    /\ IF stack[s] = <<>>
       THEN /\ ret' = Raised(s, "rollback", "RuntimeError")
            /\ UNCHANGED <<stack, beginStack, live>>
       ELSE /\ stack' = [stack EXCEPT ![s] =
                   IF HasParent(@)
                   THEN Pop(Pop(@)) \o <<Merge(Top(Pop(@)), Top(@))>>
                   ELSE Pop(@)]
            /\ ret' = Ok(s, "rollback")
            /\ beginStack' = [beginStack EXCEPT ![s] = SubSeq(@, 1, Len(@) - 1)]
            /\ live' = LiveRollback(s)
    /\ left' = left - 1
    /\ UNCHANGED <<store, conn, log, pc>>

Rollback(s, t) ==
    /\ CanStart(s, t)
    /\ left > 0
    /\ IF stack[s] = <<>>
       THEN /\ ret' = Raised(s, "rollback", "RuntimeError")
            /\ UNCHANGED <<stack, beginStack, live>>
       ELSE /\ stack' = [stack EXCEPT ![s] = Pop(@)]
            /\ ret' = Ok(s, "rollback")
            /\ beginStack' = [beginStack EXCEPT ![s] = SubSeq(@, 1, Len(@) - 1)]
            /\ live' = LiveRollback(s)
    /\ left' = left - 1
    /\ UNCHANGED <<store, conn, log, pc>>

Get(s, t, k) ==
    /\ CanStart(s, t)
    /\ ret' = Returned(s, "get", get(s, t, k))
    /\ conn' = IF Scan(stack[s], Len(stack[s]), k).hit THEN conn
               ELSE [conn EXCEPT ![t] = AfterSelect(t)]
    /\ UNCHANGED <<stack, store, log, pc, left, beginStack, live>>

Depth(s, t) ==
    /\ CanStart(s, t)
    /\ ret' = Returned(s, "depth", depth(s))
    /\ UNCHANGED <<stack, store, conn, log, pc, left, beginStack, live>>

\* ---- Session.commit ----
\* depth 0: raises. depth >= 2: merge into the parent. depth 1: pop, BEGIN;
\* BEGIN inside a transaction left open on this connection raises, and the
\* except branch rolls that transaction back
\* the pop at depth 1 and conn.execute("BEGIN;")
CommitOutermost(s, t) ==
    /\ stack' = [stack EXCEPT ![s] = Pop(@)]
    /\ IF conn[t].mode = "none"
       THEN /\ conn' = [conn EXCEPT ![t].mode = "deferred"]
            /\ pc' = [pc EXCEPT ![t] =
                  [Idle EXCEPT !.phase = "commit_apply", !.op = "commit", !.s = s,
                               !.W = Top(stack[s]).writes,
                               !.D = Top(stack[s]).deleted,
                               !.todo = Top(stack[s]).deleted
                                        \cup DOMAIN Top(stack[s]).writes]]
            /\ UNCHANGED ret
       ELSE /\ conn' = [conn EXCEPT ![t] = CleanConn]
            /\ ret' = Raised(s, "commit", "OperationalError")
            /\ UNCHANGED pc

Commit(s, t) ==
    /\ CanStart(s, t)
    /\ left > 0
    /\ left' = left - 1
    /\ UNCHANGED <<store, log>>
    /\ IF stack[s] = <<>>
       THEN /\ ret' = Raised(s, "commit", "RuntimeError")
            /\ UNCHANGED <<stack, conn, pc, beginStack, live>>
       ELSE /\ beginStack' = [beginStack EXCEPT ![s] = SubSeq(@, 1, Len(@) - 1)]
            /\ live' = LiveCommit(s)
            /\ IF HasParent(stack[s])
               THEN /\ stack' = [stack EXCEPT ![s] =
                           Pop(Pop(@)) \o <<Merge(Top(Pop(@)), Top(@))>>]
                    /\ ret' = Ok(s, "commit")
                    /\ UNCHANGED <<conn, pc>>
               ELSE CommitOutermost(s, t)


\* one statement of the batch: the deletes first, then the writes. A failing
\* statement (json.dumps TypeError, database busy) takes the except branch:
\* conn.rollback(), raise
CommitApply(t) ==
    /\ pc[t].phase = "commit_apply"
    /\ pc[t].todo # {}
    /\ \E k \in pc[t].todo :
        /\ (pc[t].todo \cap pc[t].D # {}) => k \in pc[t].D
        /\ IF k \notin pc[t].D /\ ~Serializable(pc[t].W[k])
           THEN /\ conn' = [conn EXCEPT ![t] = CleanConn]
                /\ ret' = Raised(pc[t].s, pc[t].op, "TypeError")
                /\ pc' = [pc EXCEPT ![t] = Idle]
           ELSE IF ~CanWrite(t)
           THEN /\ conn' = [conn EXCEPT ![t] = CleanConn]
                /\ ret' = Raised(pc[t].s, pc[t].op, "OperationalError")
                /\ pc' = [pc EXCEPT ![t] = Idle]
           ELSE /\ conn' = [conn EXCEPT ![t] =
                        IF k \in pc[t].D THEN DbDelete(t, k)
                        ELSE DbSet(t, k, pc[t].W[k])]
                /\ pc' = [pc EXCEPT ![t].todo = @ \ {k}]
                /\ UNCHANGED ret
    /\ UNCHANGED <<stack, store, log, left, beginStack, live>>

\* faulty variant: a commit whose failing flush leaves the batch in the table
CommitFlushAppliesOnFailure(t) ==
    /\ pc[t].phase = "commit_apply"
    /\ pc[t].todo = {}
    /\ \E okay \in BOOLEAN :
        IF okay \/ conn[t].mode # "write"
        THEN /\ store' = RowsSeen(t)
             /\ conn' = [conn EXCEPT ![t] = CleanConn]
             /\ pc' = [pc EXCEPT ![t].phase = "commit_log"]
             /\ UNCHANGED ret
        ELSE /\ conn' = [conn EXCEPT ![t] = CleanConn]
             /\ ret' = Raised(pc[t].s, pc[t].op, "OperationalError")
             /\ pc' = [pc EXCEPT ![t] = Idle]
             /\ store' = RowsSeen(t)
    /\ UNCHANGED <<stack, log, left, beginStack, live>>

\* conn.commit(): the whole view becomes the committed table, or the commit
\* fails, the except branch rolls back and the call raises
CommitFlush(t) ==
    /\ pc[t].phase = "commit_apply"
    /\ pc[t].todo = {}
    /\ \E okay \in BOOLEAN :
        IF okay \/ conn[t].mode # "write"
        THEN /\ store' = RowsSeen(t)
             /\ conn' = [conn EXCEPT ![t] = CleanConn]
             /\ pc' = [pc EXCEPT ![t].phase = "commit_log"]
             /\ UNCHANGED ret
        ELSE /\ conn' = [conn EXCEPT ![t] = CleanConn]
             /\ ret' = Raised(pc[t].s, pc[t].op, "OperationalError")
             /\ pc' = [pc EXCEPT ![t] = Idle]
             /\ UNCHANGED store
    /\ UNCHANGED <<stack, log, left, beginStack, live>>

\* faulty variant: a failed append reported as a failure of the database
AppendLogAsApplyFailure(t, okay, type, writes, deletes) ==
    /\ log' = IF okay THEN Append(log, LogRecord(type, writes, deletes)) ELSE log
    /\ ret' = IF okay THEN Ok(pc[t].s, pc[t].op)
              ELSE Raised(pc[t].s, pc[t].op, "OperationalError")
    /\ pc' = [pc EXCEPT ![t] = Idle]

\* faulty variant: the record is put in front of the log, not at its end
AppendLogAtFront(t, okay, type, writes, deletes) ==
    /\ log' = IF okay THEN <<LogRecord(type, writes, deletes)>> \o log ELSE log
    /\ ret' = IF okay THEN Ok(pc[t].s, pc[t].op) ELSE Raised(pc[t].s, pc[t].op, "OSError")
    /\ pc' = [pc EXCEPT ![t] = Idle]

\* _append_log under _log_lock: one line appended, or open/write raises
AppendLog(t, okay, type, writes, deletes) ==
    /\ log' = IF okay THEN Append(log, LogRecord(type, writes, deletes)) ELSE log
    /\ ret' = IF okay THEN Ok(pc[t].s, pc[t].op) ELSE Raised(pc[t].s, pc[t].op, "OSError")
    /\ pc' = [pc EXCEPT ![t] = Idle]

CommitLog(t) ==
    /\ pc[t].phase = "commit_log"
    /\ \E okay \in BOOLEAN : AppendLog(t, okay, "transaction", pc[t].W, pc[t].D)
    /\ UNCHANGED <<stack, store, conn, left, beginStack, live>>

\* faulty variant: a failed conn.commit() that leaves the uncommitted change
\* on the connection
AutoFlushKeepsPending(t, next) ==
    /\ \E okay \in BOOLEAN :
        IF okay
        THEN /\ store' = RowsSeen(t)
             /\ conn' = [conn EXCEPT ![t] = CleanConn]
             /\ pc' = [pc EXCEPT ![t].phase = next]
             /\ UNCHANGED ret
        ELSE /\ ret' = Raised(pc[t].s, pc[t].op, "OperationalError")
             /\ pc' = [pc EXCEPT ![t] = Idle]
             /\ UNCHANGED <<store, conn>>
    /\ UNCHANGED <<stack, log, left, beginStack, live>>

\* ---- autocommit: statement, conn.commit(), log ----
\* conn.commit() of an autocommit call: the view becomes the committed table,
\* or the commit fails on an I/O error (SQLite then rolls the transaction
\* back itself) and the call raises
AutoFlush(t, next) ==
    /\ \E okay \in BOOLEAN :
        IF okay
        THEN /\ store' = RowsSeen(t)
             /\ conn' = [conn EXCEPT ![t] = CleanConn]
             /\ pc' = [pc EXCEPT ![t].phase = next]
             /\ UNCHANGED ret
        ELSE /\ conn' = [conn EXCEPT ![t] = CleanConn]
             /\ ret' = Raised(pc[t].s, pc[t].op, "OperationalError")
             /\ pc' = [pc EXCEPT ![t] = Idle]
             /\ UNCHANGED store
    /\ UNCHANGED <<stack, log, left, beginStack, live>>

Set(s, t, k, v) ==
    /\ CanStart(s, t)
    /\ left > 0
    /\ left' = left - 1
    /\ UNCHANGED <<store, log, beginStack>>
    /\ IF stack[s] = <<>>
       THEN /\ UNCHANGED stack
            /\ live' = LiveDrop(s, k)
            /\ IF ~Serializable(v)
               THEN /\ ret' = Raised(s, "set", "TypeError")
                    /\ UNCHANGED <<conn, pc>>
               ELSE IF ~CanWrite(t)
               THEN /\ conn' = [conn EXCEPT ![t] = BusyConn(t)]
                    /\ ret' = Raised(s, "set", "OperationalError")
                    /\ UNCHANGED pc
               ELSE /\ conn' = [conn EXCEPT ![t] = DbSet(t, k, v)]
                    /\ pc' = [pc EXCEPT ![t] =
                          [Idle EXCEPT !.phase = "set_flush", !.op = "set", !.s = s,
                                       !.key = k, !.val = v]]
                    /\ UNCHANGED ret
       ELSE /\ stack' = [stack EXCEPT ![s][Len(stack[s])] = StageSet(@, k, v)]
            /\ live' = LiveSet(s, k, v)
            /\ ret' = Ok(s, "set")
            /\ UNCHANGED <<conn, pc>>

SetFlush(t) ==
    /\ pc[t].phase = "set_flush"
    /\ AutoFlush(t, "set_log")

SetLog(t) ==
    /\ pc[t].phase = "set_log"
    /\ \E okay \in BOOLEAN :
        AppendLog(t, okay, "autocommit", Put(Empty, pc[t].key, pc[t].val), {})
    /\ UNCHANGED <<stack, store, conn, left, beginStack, live>>

Delete(s, t, k) ==
    /\ CanStart(s, t)
    /\ left > 0
    /\ left' = left - 1
    /\ UNCHANGED <<store, log, beginStack>>
    /\ live' = LiveDrop(s, k)
    /\ IF stack[s] = <<>>
       THEN /\ UNCHANGED stack
            /\ IF ~CanWrite(t)
               THEN /\ conn' = [conn EXCEPT ![t] = BusyConn(t)]
                    /\ ret' = Raised(s, "delete", "OperationalError")
                    /\ UNCHANGED pc
               ELSE /\ conn' = [conn EXCEPT ![t] = DbDelete(t, k)]
                    /\ pc' = [pc EXCEPT ![t] =
                          [Idle EXCEPT !.phase = "delete_flush", !.op = "delete",
                                       !.s = s, !.key = k]]
                    /\ UNCHANGED ret
       ELSE /\ stack' = [stack EXCEPT ![s][Len(stack[s])] = StageDelete(@, k)]
            /\ ret' = Ok(s, "delete")
            /\ UNCHANGED <<conn, pc>>

DeleteFlush(t) ==
    /\ pc[t].phase = "delete_flush"
    /\ AutoFlush(t, "delete_log")

DeleteLog(t) ==
    /\ pc[t].phase = "delete_log"
    /\ \E okay \in BOOLEAN :
        AppendLog(t, okay, "autocommit", Empty, {pc[t].key})
    /\ UNCHANGED <<stack, store, conn, left, beginStack, live>>

\* ---- the system ----
\* a new database file, new sessions, no connection opened yet, an empty log
InitWith(budget) ==
    /\ stack = [s \in Sessions |-> <<>>]
    /\ store = Empty
    /\ conn = [t \in Threads |-> CleanConn]
    /\ log = <<>>
    /\ pc = [t \in Threads |-> Idle]
    /\ ret = Ok(0, "none")
    /\ left = budget
    /\ beginStack = [s \in Sessions |-> <<>>]
    /\ live = [s \in Sessions |-> Empty]

Init == InitWith(MaxOps)

NextOn(SS, TT) ==
    \/ \E s \in SS, t \in TT : Begin(s, t)
    \/ \E s \in SS, t \in TT : Commit(s, t)
    \/ \E s \in SS, t \in TT : Rollback(s, t)
    \/ \E s \in SS, t \in TT, k \in Keys, v \in Values : Set(s, t, k, v)
    \/ \E s \in SS, t \in TT, k \in Keys : Delete(s, t, k)
    \/ \E s \in SS, t \in TT, k \in Keys : Get(s, t, k)
    \/ \E s \in SS, t \in TT : Depth(s, t)
    \/ \E t \in TT : CommitApply(t)
    \/ \E t \in TT : CommitFlush(t)
    \/ \E t \in TT : CommitLog(t)
    \/ \E t \in TT : SetFlush(t)
    \/ \E t \in TT : SetLog(t)
    \/ \E t \in TT : DeleteFlush(t)
    \/ \E t \in TT : DeleteLog(t)

\* sessions served concurrently by the threads of the process
Next == NextOn(Sessions, Threads)

Spec == Init /\ [][Next]_vars

\* every session driven from one thread, one call after the other (the unit
\* tests' setting), with room for deeper nesting
InitSeq == InitWith(MaxOpsSeq)

NextSeq == NextOn({1}, {1})

SpecSeq == InitSeq /\ [][NextSeq]_vars

\* every layer a transaction can have staged: writes to some keys, deletes of
\* some of the others
StagedLayers ==
    UNION {{[writes |-> w, deleted |-> d] : w \in [K -> Values],
                                            d \in SUBSET (Keys \ K)} :
           K \in SUBSET Keys}

\* every session has begun a transaction and staged sets and deletes in it;
\* nothing is committed yet
InitStaged ==
    /\ \E L \in [Sessions -> StagedLayers] :
          /\ stack = [s \in Sessions |-> <<L[s]>>]
          /\ live = [s \in Sessions |->
                       [k \in DOMAIN L[s].writes |->
                           [val |-> L[s].writes[k], lvl |-> 1]]]
    /\ store = Empty
    /\ conn = [t \in Threads |-> CleanConn]
    /\ log = <<>>
    /\ pc = [t \in Threads |-> Idle]
    /\ ret = Ok(0, "none")
    /\ left = MaxOpsStaged
    /\ beginStack = [s \in Sessions |-> <<<<>>>>]

SpecStaged == InitStaged /\ [][Next]_vars

\* ---- the serving layer (api.py) ----
\* The registry _sessions holds the sessions created with POST /session: here
\* all but the last one, which stands for the fresh session a request without
\* a session id gets (its stack is always empty). Requests without a session
\* id are served one after the other.
Anon == NumSessions

Registered == Sessions \ {Anon}

\* no X-Session-ID header and no ?session= argument
NoSid == 0

\* an id that is not in the registry
UnknownSid == NumSessions + 1

Sids == Registered \cup {NoSid, UnknownSid}

\* a PUT body without "value"
NoValue == NumVals + 2

\* faulty variant: a request without a session id served on a registered session
SessionOfShared(sid) == IF sid = NoSid THEN CHOOSE s \in Registered : TRUE ELSE sid

\* _get_session, for an id that passed the registry test
SessionOf(sid) == IF sid = NoSid THEN Anon ELSE sid

Known(sid) == sid \in Registered

\* abort(code): the handler stops, nothing but the response is produced
Abort(t, op, kind) ==
    /\ ThreadIdle(t)
    /\ ret' = Raised(NoSid, op, kind)
    /\ UNCHANGED <<stack, store, conn, log, pc, left, beginStack, live>>

\* the HTTP status of the response to the call that finished last; an
\* exception no handler catches is a 500
Status(r) ==
    CASE r.kind = "NotFound" -> 404
      [] r.kind = "BadRequest" -> 400
      [] r.kind = "RuntimeError" /\ r.op \in {"commit", "rollback"} -> 400
      [] r.kind = "value" /\ r.op = "get" /\ r.val = None -> 404
      [] r.kind \in {"ok", "value"} -> 200
      [] OTHER -> 500

begin_tx(sid, t) ==
    IF Known(sid) THEN Begin(sid, t) ELSE Abort(t, "begin", "NotFound")

commit_tx(sid, t) ==
    IF Known(sid) THEN Commit(sid, t) ELSE Abort(t, "commit", "NotFound")

rollback_tx(sid, t) ==
    IF Known(sid) THEN Rollback(sid, t) ELSE Abort(t, "rollback", "NotFound")

set_key(sid, t, k, v) ==
    IF sid # NoSid /\ ~Known(sid) THEN Abort(t, "set", "NotFound")
    ELSE IF v = NoValue THEN Abort(t, "set", "BadRequest")
    ELSE Set(SessionOf(sid), t, k, v)

get_key(sid, t, k) ==
    IF sid # NoSid /\ ~Known(sid) THEN Abort(t, "get", "NotFound")
    ELSE Get(SessionOf(sid), t, k)

delete_key(sid, t, k) ==
    IF sid # NoSid /\ ~Known(sid) THEN Abort(t, "delete", "NotFound")
    ELSE Delete(SessionOf(sid), t, k)

InitApi == InitWith(MaxOpsApi)

\* requests carry JSON values only
NextApi ==
    \/ \E sid \in Sids \ {NoSid}, t \in Threads : begin_tx(sid, t)
    \/ \E sid \in Sids \ {NoSid}, t \in Threads : commit_tx(sid, t)
    \/ \E sid \in Sids \ {NoSid}, t \in Threads : rollback_tx(sid, t)
    \/ \E sid \in Sids, t \in Threads, k \in Keys, v \in JsonVals \cup {NoValue} :
          set_key(sid, t, k, v)
    \/ \E sid \in Sids, t \in Threads, k \in Keys : get_key(sid, t, k)
    \/ \E sid \in Sids, t \in Threads, k \in Keys : delete_key(sid, t, k)
    \/ \E t \in Threads : CommitApply(t)
    \/ \E t \in Threads : CommitFlush(t)
    \/ \E t \in Threads : CommitLog(t)
    \/ \E t \in Threads : SetFlush(t)
    \/ \E t \in Threads : SetLog(t)
    \/ \E t \in Threads : DeleteFlush(t)
    \/ \E t \in Threads : DeleteLog(t)

SpecApi == InitApi /\ [][NextApi]_vars

(***************************************************************************)
(* Properties                                                              *)
(***************************************************************************)
\* s's own stack stages k: some layer writes or deletes it
Staged(s, k) ==
    \E i \in 1..Len(stack[s]) :
        k \in stack[s][i].deleted \/ k \in DOMAIN stack[s][i].writes

\* the committed table after deleting D and upserting W
NetEffect(rows, W, D) ==
    [k \in ((DOMAIN rows) \ D) \cup DOMAIN W |->
        IF k \in DOMAIN W THEN Dumps(W[k]) ELSE rows[k]]

\* C1: isolation. What session s1 stages (set or delete at depth >= 1), and
\* every step of s1 up to the flush of its outermost commit, changes neither
\* the committed table nor what any other session's get returns; once that
\* commit has flushed, get(k) by any other session that does not stage k
\* returns the value the commit wrote (absent for a key it deleted).
IsolationUntilOutermostCommit ==
    [][/\ \A s1 \in Sessions, t \in Threads :
            (\/ Begin(s1, t)
             \/ Rollback(s1, t)
             \/ Commit(s1, t) /\ depth(s1) >= 2
             \/ depth(s1) >= 1 /\ \E k \in Keys, v \in Values : Set(s1, t, k, v)
             \/ depth(s1) >= 1 /\ \E k \in Keys : Delete(s1, t, k))
            => /\ store' = store
               /\ \A s2 \in Sessions \ {s1}, u \in Threads, j \in Keys :
                      get(s2, u, j)' = get(s2, u, j)
       /\ \A s1 \in Sessions, t \in Threads :
            (Commit(s1, t) /\ depth(s1) = 1)
            => /\ store' = store
               /\ \A s2 \in Sessions \ {s1}, u \in Threads \ {t}, j \in Keys :
                      get(s2, u, j)' = get(s2, u, j)
       /\ \A t \in Threads :
            CommitApply(t)
            => /\ store' = store
               /\ \A s2 \in Sessions \ {pc[t].s}, u \in Threads \ {t}, j \in Keys :
                      get(s2, u, j)' = get(s2, u, j)
       /\ \A t \in Threads :
            (CommitFlush(t) /\ pc'[t].phase = "commit_log")
            => \A s2 \in Sessions \ {pc[t].s}, u \in Threads \ {t} :
                   \A k \in pc[t].D \cup DOMAIN pc[t].W :
                       (~Staged(s2, k) /\ ThreadIdle(u))
                       => get(s2, u, k)' =
                             IF k \in DOMAIN pc[t].W THEN pc[t].W[k] ELSE None
      ]_vars

\* C2 as stated: own-writes visibility. Once session s has staged set(k, v),
\* every later get(k) by s returns v until s sets or deletes k again or rolls
\* back the layer holding the write - whatever else happens in between.
OwnWritesUntilOverwritten ==
    \A s \in Sessions, t \in Threads :
        (SessionIdle(s) /\ ThreadIdle(t)) =>
            \A k \in DOMAIN live[s] : get(s, t, k) = live[s][k].val

\* C2 amended: the same, for as long as the layer holding the write is still
\* on s's stack (until s's outermost commit takes it off).
OwnWritesWhileStaged ==
    \A s \in Sessions, t \in Threads :
        (SessionIdle(s) /\ ThreadIdle(t)) =>
            \A k \in DOMAIN live[s] :
                live[s][k].lvl >= 1 => get(s, t, k) = live[s][k].val

\* get has just returned a session's staged value while the table holds a
\* different value, committed for that key by someone else
OwnWritesWitness ==
    \E s \in Sessions, k \in Keys :
        /\ k \in DOMAIN live[s] /\ live[s][k].lvl >= 1
        /\ k \in DOMAIN store /\ Loads(store[k]) # live[s][k].val
        /\ ret = Returned(s, "get", live[s][k].val)

\* C3: a commit at depth >= 2 changes nothing but the committing session's
\* stack: the store, the log, every connection, every running call and every
\* other session's stack stay as they are; the top layer is gone, the layers
\* below its parent are untouched and the parent now mentions every key the
\* top layer mentioned.
InnerCommitTouchesOnlyOwnStack ==
    [][\A s \in Sessions, t \in Threads :
        (Commit(s, t) /\ depth(s) >= 2) =>
            /\ store' = store /\ log' = log /\ conn' = conn /\ pc' = pc
            /\ \A s2 \in Sessions \ {s} : stack'[s2] = stack[s2]
            /\ Len(stack'[s]) = Len(stack[s]) - 1
            /\ SubSeq(stack'[s], 1, Len(stack[s]) - 2)
                 = SubSeq(stack[s], 1, Len(stack[s]) - 2)
            /\ (DOMAIN Top(stack[s]).writes) \cup Top(stack[s]).deleted
                 \subseteq (DOMAIN Top(stack'[s]).writes) \cup Top(stack'[s]).deleted
      ]_vars

\* an inner commit has just merged a write into its parent
InnerCommitWitness ==
    \E s \in Sessions :
        /\ ret = Ok(s, "commit")
        /\ depth(s) >= 1
        /\ Top(stack[s]).writes # Empty

\* C4: the flush of an outermost commit replaces the committed table by the
\* table it found with every key of D removed and every (k, v) of W upserted,
\* every other row unchanged; no key of D has a row afterwards; the log step
\* that follows does not touch the table again.
OutermostCommitAppliesNetEffect ==
    [][\A t \in Threads :
        /\ (CommitFlush(t) /\ pc'[t].phase = "commit_log") =>
              /\ store' = NetEffect(store, pc[t].W, pc[t].D)
              /\ \A k \in pc[t].D : k \notin DOMAIN store'
        /\ CommitLog(t) => store' = store
      ]_vars

\* a transaction has deleted a key that an earlier autocommit had stored
OutermostCommitWitness ==
    \E t \in Threads, k \in Keys :
        /\ pc[t].phase = "commit_log"
        /\ k \in pc[t].D
        /\ k \notin DOMAIN store
        /\ Len(log) = 1 /\ log[1].type = "autocommit" /\ k \in DOMAIN log[1].writes

\* how many of the keys K a get by session s on thread u finds
Visible(s, u, K) == Cardinality({k \in K : get(s, u, k) # None})

\* C5: all-or-nothing outermost commit. The statements of the batch leave the
\* committed table as it is; the flush of a batch of N writes to keys that
\* have no row puts all N rows there in one step; a reader (another session,
\* staging none of the keys, on a thread free to serve it) finds 0 of them
\* just before the flush and all N just after.
AllOrNothingOutermostCommit ==
    [][\A t \in Threads :
        /\ CommitApply(t) => store' = store
        /\ (/\ CommitFlush(t) /\ pc'[t].phase = "commit_log"
            /\ pc[t].D = {}
            /\ (DOMAIN pc[t].W) \cap (DOMAIN store) = {})
           => /\ DOMAIN store' = (DOMAIN store) \cup DOMAIN pc[t].W
              /\ \A s2 \in Sessions \ {pc[t].s}, u \in Threads \ {t} :
                    (ThreadIdle(u) /\ \A k \in DOMAIN pc[t].W : ~Staged(s2, k))
                    => /\ Visible(s2, u, DOMAIN pc[t].W) = 0
                       /\ Visible(s2, u, DOMAIN pc[t].W)' = Cardinality(DOMAIN pc[t].W)
      ]_vars

\* C10: autocommit visibility. The flush of a depth-0 set(k, v) puts k = v in
\* the committed table (of a delete(k): removes k), before the call returns;
\* from then on get(k) by any session that does not stage k, on any thread
\* free to serve it, returns v (absent), and keeps returning it across every
\* step that commits nothing to k.
AutocommitVisibleAtOnce ==
    [][/\ \A t \in Threads :
            /\ (SetFlush(t) /\ pc'[t].phase = "set_log")
               => /\ pc[t].key \in DOMAIN store'
                  /\ store'[pc[t].key] = Dumps(pc[t].val)
                  /\ \A s2 \in Sessions, u \in Threads \ {t} :
                        (ThreadIdle(u) /\ ~Staged(s2, pc[t].key))
                        => get(s2, u, pc[t].key)' = pc[t].val
            /\ (DeleteFlush(t) /\ pc'[t].phase = "delete_log")
               => /\ pc[t].key \notin DOMAIN store'
                  /\ \A s2 \in Sessions, u \in Threads \ {t} :
                        (ThreadIdle(u) /\ ~Staged(s2, pc[t].key))
                        => get(s2, u, pc[t].key)' = None
            /\ (SetLog(t) \/ DeleteLog(t)) => store' = store
       /\ \A s2 \in Sessions, u \in Threads, k \in Keys :
            (/\ store' = store
             /\ ThreadIdle(u) /\ ThreadIdle(u)'
             /\ ~Staged(s2, k) /\ ~Staged(s2, k)')
            => get(s2, u, k)' = get(s2, u, k)
      ]_vars

\* C6: every session starts at depth 0; begin succeeds and adds exactly one
\* layer; commit and rollback at depth >= 1 remove exactly one; nothing else
\* (set, delete, get, depth(), the later steps of a running call) changes any
\* session's depth; depth is never negative.
DepthStateMachine ==
    /\ \A s \in Sessions : depth(s) = 0
    /\ [][\A s \in Sessions :
            /\ \A t \in Threads :
                 /\ Begin(s, t) => depth(s)' = depth(s) + 1 /\ ret' = Ok(s, "begin")
                 /\ (Commit(s, t) /\ depth(s) >= 1) => depth(s)' = depth(s) - 1
                 /\ (Rollback(s, t) /\ depth(s) >= 1) => depth(s)' = depth(s) - 1
            /\ (\A t \in Threads : ~Begin(s, t) /\ ~Commit(s, t) /\ ~Rollback(s, t))
                 => depth(s)' = depth(s)
            /\ depth(s)' >= 0
       ]_vars

\* an outermost commit has taken a session from depth 1 back to depth 0 and
\* is still running
DepthWitness ==
    \E t \in Threads :
        /\ pc[t].phase = "commit_apply"
        /\ depth(pc[t].s) = 0
        /\ pc[t].W # Empty

\* C7: commit or rollback at depth 0 raises the no-active-transaction error
\* and changes nothing: the stack stays empty, the store, the log, the
\* connections and the running calls are untouched, and the session is free
\* for its next call like a new one.
NoActiveTransaction ==
    [][\A s \in Sessions, t \in Threads :
        /\ (Commit(s, t) /\ depth(s) = 0) =>
              /\ ret' = Raised(s, "commit", "RuntimeError")
              /\ stack'[s] = <<>> /\ SessionIdle(s)'
              /\ UNCHANGED <<stack, store, log, conn, pc>>
        /\ (Rollback(s, t) /\ depth(s) = 0) =>
              /\ ret' = Raised(s, "rollback", "RuntimeError")
              /\ stack'[s] = <<>> /\ SessionIdle(s)'
              /\ UNCHANGED <<stack, store, log, conn, pc>>
      ]_vars

\* rollback at depth 0 was refused with rows in the store and a record logged
NoActiveTransactionWitness ==
    \E s \in Sessions :
        /\ ret = Raised(s, "rollback", "RuntimeError")
        /\ depth(s) = 0
        /\ store # Empty /\ log # <<>>

\* C8: rollback leaves the session's stack exactly as it was when the layer it
\* discards was begun - whatever was set, deleted or merged into that layer
\* since - and touches neither the store, the log nor any connection.
RollbackRestoresStackAtBegin ==
    [][\A s \in Sessions, t \in Threads :
        (Rollback(s, t) /\ depth(s) >= 1) =>
            /\ stack'[s] = beginStack[s][Len(beginStack[s])]
            /\ store' = store /\ log' = log /\ conn' = conn
      ]_vars

\* six calls ending in a rollback to depth 0 with nothing stored: begin, set,
\* begin, set, commit, rollback is among them
RollbackWitness ==
    /\ ret = Ok(1, "rollback")
    /\ depth(1) = 0
    /\ left = MaxOpsSeq - 6
    /\ store = Empty

\* the write of k that layer i's children would fall back to: the value of
\* the innermost layer below the top that mentions k, if that is a write
OuterWrite(st, k) ==
    {st[i].writes[k] : i \in {j \in 1..(Len(st) - 1) :
        /\ k \in DOMAIN st[j].writes
        /\ \A m \in (j + 1)..(Len(st) - 1) :
              k \notin st[m].deleted /\ k \notin DOMAIN st[m].writes}}

\* C9: with an outer layer holding k = v and the innermost layer deleting k,
\* get(k) is absent; rolling that innermost layer back makes get(k) = v again.
NestedShadowByDelete ==
    /\ [](\A s \in Sessions, t \in Threads, k \in Keys :
            (depth(s) >= 2 /\ k \in Top(stack[s]).deleted /\ OuterWrite(stack[s], k) # {})
                => get(s, t, k) = None)
    /\ [][\A s \in Sessions, t \in Threads, k \in Keys :
            (Rollback(s, t) /\ depth(s) >= 2 /\ k \in Top(stack[s]).deleted)
                => \A v \in OuterWrite(stack[s], k) :
                       \A u \in Threads : get(s, u, k)' = v
       ]_vars

\* get has just answered absent for a key the outer layer writes and the
\* inner layer deletes
NestedShadowWitness ==
    \E k \in Keys :
        /\ depth(1) = 2
        /\ k \in DOMAIN stack[1][1].writes
        /\ k \in stack[1][2].deleted
        /\ ret = Returned(1, "get", None)

\* C11: last write wins under concurrent autocommit. The flush of an
\* autocommit set(k, v) turns the committed table into the table it finds
\* with k = v and every other row as it was (so the value of k is the value
\* of the set applied last, and a set of another key is never lost); the
\* table changes at no step other than a flush.
LastWriteWins ==
    [][/\ \A t \in Threads :
            (SetFlush(t) /\ pc'[t].phase = "set_log")
            => store' = Put(store, pc[t].key, Dumps(pc[t].val))
       /\ store' # store
            => \E t \in Threads : SetFlush(t) \/ DeleteFlush(t) \/ CommitFlush(t)
      ]_vars

\* two autocommit sets of one key with different values are both applied and
\* both still running; the table holds the value of one of them
LastWriteWinsWitness ==
    /\ pc[1].phase = "set_log" /\ pc[2].phase = "set_log"
    /\ pc[1].key = pc[2].key /\ pc[1].val # pc[2].val
    /\ store[pc[1].key] \in {Dumps(pc[1].val), Dumps(pc[2].val)}

\* the part of its batch that the commit running on thread t has executed
DoneWrites(t) == [k \in (DOMAIN pc[t].W) \ pc[t].todo |-> pc[t].W[k]]

DoneDeletes(t) == pc[t].D \ pc[t].todo

\* C12: concurrent outermost commits do not interleave. At most one
\* connection holds uncommitted changes at a time; while a commit is
\* executing its batch, its uncommitted view is the committed table plus the
\* part of its own batch executed so far, so no other batch lands in between;
\* and the committed table only ever changes to the whole view of the one
\* writer. The table therefore goes through the batches one whole batch after
\* the other, the later one winning on every shared key.
ConcurrentCommitsDoNotInterleave ==
    /\ [](\A t \in Threads : \A u \in Threads \ {t} :
            ~(conn[t].mode = "write" /\ conn[u].mode = "write"))
    /\ [](\A t \in Threads :
            (pc[t].phase = "commit_apply" /\ conn[t].mode = "write")
            => conn[t].view = NetEffect(store, DoneWrites(t), DoneDeletes(t)))
    /\ [][store' # store
            => \E t \in Threads : conn[t].mode = "write" /\ store' = conn[t].view
       ]_vars

\* two outermost commits that write one key with different values are both
\* applied and both still running; the table holds the value of one of them
ConcurrentCommitsWitness ==
    /\ pc[1].phase = "commit_log" /\ pc[2].phase = "commit_log"
    /\ \E k \in (DOMAIN pc[1].W) \cap (DOMAIN pc[2].W) :
          /\ pc[1].W[k] # pc[2].W[k]
          /\ k \in DOMAIN store
          /\ store[k] \in {Dumps(pc[1].W[k]), Dumps(pc[2].W[k])}
    /\ Cardinality(DOMAIN pc[1].W) = NumKeys

\* C13: failed outermost commit. Whether BEGIN, a statement of the batch or
\* the flush fails, the call raises to its caller, the committed table and
\* the log are unchanged, the connection's uncommitted changes are rolled
\* back, and the session is at depth 0 with the popped layer gone; the
\* statements executed before the failure have not touched the table either.
FailedOutermostCommit ==
    [][\A t \in Threads :
        /\ \A s \in Sessions :
              (Commit(s, t) /\ depth(s) = 1 /\ conn[t].mode # "none")
              => /\ ret' = Raised(s, "commit", "OperationalError")
                 /\ depth(s)' = 0
                 /\ store' = store /\ log' = log
                 /\ conn'[t] = CleanConn /\ ThreadIdle(t)'
        /\ ((CommitApply(t) \/ CommitFlush(t)) /\ ThreadIdle(t)')
              => /\ ret' \in {Raised(pc[t].s, "commit", "TypeError"),
                              Raised(pc[t].s, "commit", "OperationalError")}
                 /\ Len(stack'[pc[t].s]) = 0 /\ stack' = stack
                 /\ store' = store /\ log' = log
                 /\ conn'[t] = CleanConn
        /\ CommitApply(t) => (store' = store /\ log' = log)
      ]_vars

\* a commit of a batch of two writes, one of a value that cannot be encoded,
\* has raised; nothing is stored or logged and the session is at depth 0
FailedOutermostCommitWitness ==
    \E s \in Sessions :
        /\ ret = Raised(s, "commit", "TypeError")
        /\ depth(s) = 0
        /\ Cardinality(DOMAIN live[s]) = NumKeys
        /\ \E k \in DOMAIN live[s] : live[s][k] = [val |-> 1, lvl |-> 0]
        /\ store = Empty /\ log = <<>>

\* C14: a log append failure never undoes a flush. When the append that
\* follows an applied autocommit set/delete or outermost commit fails, the
\* call raises the file error (not one of the errors a failed apply raises),
\* and the step changes neither the committed table, nor any connection (no
\* rollback runs), nor any stack: every session reads what it read before.
LogFailureKeepsFlush ==
    [][\A t \in Threads :
        ((CommitLog(t) \/ SetLog(t) \/ DeleteLog(t)) /\ log' = log)
        => /\ ret' = Raised(pc[t].s, pc[t].op, "OSError")
           /\ ret'.kind \notin {"OperationalError", "TypeError"}
           /\ store' = store /\ conn' = conn /\ stack' = stack
           /\ \A s \in Sessions, u \in Threads, k \in Keys :
                 get(s, u, k)' = get(s, u, k)
      ]_vars

\* an outermost commit has raised the file error; its write is in the table
\* and the log is empty
LogFailureWitness ==
    \E s \in Sessions, k \in Keys :
        /\ ret = Raised(s, "commit", "OSError")
        /\ k \in DOMAIN live[s] /\ live[s][k].lvl = 0
        /\ k \in DOMAIN store /\ store[k] = Dumps(live[s][k].val)
        /\ log = <<>>

\* C15: serving-layer error mapping. A request naming a session id that is
\* not registered is answered 404 and changes no stack, table, log,
\* connection or running call; commit or rollback on a registered session at
\* depth 0 is answered 400 and the session stays at depth 0; a key request
\* without a session id changes no stack: its get returns what the database
\* holds for the key (never a value some session has only staged), its set
\* and delete take the autocommit path.
ServingLayerErrorMapping ==
    [][\A t \in Threads :
        /\ (\/ begin_tx(UnknownSid, t) \/ commit_tx(UnknownSid, t)
            \/ rollback_tx(UnknownSid, t)
            \/ \E k \in Keys :
                  \/ get_key(UnknownSid, t, k) \/ delete_key(UnknownSid, t, k)
                  \/ \E v \in JsonVals \cup {NoValue} : set_key(UnknownSid, t, k, v))
           => /\ Status(ret') = 404
              /\ UNCHANGED <<stack, store, log, conn, pc>>
        /\ \A sid \in Registered :
              ((commit_tx(sid, t) \/ rollback_tx(sid, t)) /\ depth(sid) = 0)
              => /\ Status(ret') = 400
                 /\ depth(sid)' = 0
                 /\ UNCHANGED <<stack, store, log, conn, pc>>
        /\ \A k \in Keys :
              /\ get_key(NoSid, t, k)
                   => /\ ret' = Returned(Anon, "get", DbGet(t, k))
                      /\ UNCHANGED <<stack, store, log>>
              /\ (\E v \in JsonVals : set_key(NoSid, t, k, v))
                   => /\ stack' = stack
                      /\ \/ pc'[t].phase = "set_flush" /\ k \in DOMAIN RowsSeen(t)'
                         \/ ret' = Raised(Anon, "set", "OperationalError")
              /\ delete_key(NoSid, t, k)
                   => /\ stack' = stack
                      /\ \/ pc'[t].phase = "delete_flush" /\ k \notin DOMAIN RowsSeen(t)'
                         \/ ret' = Raised(Anon, "delete", "OperationalError")
      ]_vars

\* a request with an unknown session id has been answered 404 while a
\* registered session is inside a transaction with a key staged
ServingLayerWitness ==
    /\ ret.kind = "NotFound" /\ Status(ret) = 404
    /\ \E s \in Registered, k \in Keys : depth(s) >= 1 /\ Staged(s, k)

\* C16: layer invariant. In every reachable state no layer of any session's
\* stack has a key both in its writes and in its deleted set.
LayerInvariant ==
    \A s \in Sessions : \A i \in 1..Len(stack[s]) :
        (DOMAIN stack[s][i].writes) \cap stack[s][i].deleted = {}

\* an inner commit has just produced a layer that holds a write of one key
\* and the delete of another
LayerInvariantWitness ==
    /\ ret = Ok(1, "commit")
    /\ depth(1) = 1
    /\ Top(stack[1]).writes # Empty
    /\ Top(stack[1]).deleted # {}

\* the committed value of k, absent if the table has no row for it
Committed(k) == IF k \in DOMAIN store THEN Loads(store[k]) ELSE None

\* the layers of st that mention k
Mentions(st, k) ==
    {i \in 1..Len(st) : k \in st[i].deleted \/ k \in DOMAIN st[i].writes}

\* what the innermost layer mentioning k says, the committed value if none does
Resolve(st, k) ==
    IF Mentions(st, k) = {} THEN Committed(k)
    ELSE LET i == CHOOSE m \in Mentions(st, k) : \A j \in Mentions(st, k) : j <= m
         IN IF k \in st[i].deleted THEN None ELSE st[i].writes[k]

\* C17: read resolution. get(k) returns the outcome of the innermost layer
\* that mentions k - absent for a delete, the value for a write - and the
\* committed value of k (or absent) if no layer mentions it; get changes
\* neither the stack, nor the committed table, nor the log.
ReadResolution ==
    [][\A s \in Sessions, t \in Threads, k \in Keys :
        Get(s, t, k)
        => /\ ret' = Returned(s, "get", Resolve(stack[s], k))
           /\ UNCHANGED <<stack, store, log>>
      ]_vars

\* C18: merge result. After commit at depth >= 2 with child (Wc, Dc) and
\* parent (Wp, Dp) the top layer has deleted = (Dp \cup Dc) \ keys(Wc) and
\* writes = Wp without the keys of Dc, overridden by Wc; the layers below the
\* parent are unchanged; the call returns normally.
MergeResult ==
    [][\A s \in Sessions, t \in Threads :
        (Commit(s, t) /\ depth(s) >= 2)
        => LET c == Top(stack[s])
               p == Top(Pop(stack[s]))
           IN /\ ret' = Ok(s, "commit")
              /\ Len(stack'[s]) = Len(stack[s]) - 1
              /\ Top(stack'[s]).deleted = (p.deleted \cup c.deleted) \ DOMAIN c.writes
              /\ Top(stack'[s]).writes =
                    [k \in ((DOMAIN p.writes) \ c.deleted) \cup DOMAIN c.writes |->
                        IF k \in DOMAIN c.writes THEN c.writes[k] ELSE p.writes[k]]
              /\ \A i \in 1..(Len(stack[s]) - 2) : stack'[s][i] = stack[s][i]
      ]_vars

\* six calls ending in an inner commit that leaves one key deleted and the
\* other written in the parent
MergeResultWitness ==
    /\ ret = Ok(1, "commit")
    /\ left = 0
    /\ depth(1) = 1
    /\ Top(stack[1]).deleted = {1}
    /\ DOMAIN Top(stack[1]).writes = {2}

\* q lists exactly the keys of D, each once, in increasing order
ListsSorted(q, D) ==
    /\ Len(q) = Cardinality(D)
    /\ {q[i] : i \in 1..Len(q)} = D
    /\ \A i \in 1..(Len(q) - 1) : q[i] < q[i + 1]

\* the log is the old log plus one record of this type with these writes
\* (encoded) and these deleted keys
Appended(type, writes, deletes) ==
    /\ Len(log') = Len(log) + 1
    /\ SubSeq(log', 1, Len(log)) = log
    /\ log'[Len(log')].type = type
    /\ log'[Len(log')].writes = [k \in DOMAIN writes |-> Dumps(writes[k])]
    /\ ListsSorted(log'[Len(log')].deletes, deletes)

\* the steps that follow a successful flush: the append of its record
LogStep(t) == SetLog(t) \/ DeleteLog(t) \/ CommitLog(t)

\* what the record of the call running on thread t must be
RecordOf(t) ==
    CASE pc[t].op = "set" -> Appended("autocommit", Put(Empty, pc[t].key, pc[t].val), {})
      [] pc[t].op = "delete" -> Appended("autocommit", Empty, {pc[t].key})
      [] pc[t].op = "commit" -> Appended("transaction", pc[t].W, pc[t].D)

\* C19 as stated: commit log content. Every successful flush is followed by
\* the append of exactly one record - autocommit with writes = {k: v} and no
\* deletes for a set, autocommit with no writes and deletes = [k] for a
\* delete, transaction with the layer's writes and deleted keys for an
\* outermost commit; no other step changes the log.
OneRecordPerFlush ==
    [][/\ \A t \in Threads : LogStep(t) => RecordOf(t)
       /\ (\A t \in Threads : ~LogStep(t)) => log' = log
      ]_vars

\* C19 amended: the same, except that the append itself can fail: then the
\* call raises the file error and the flush is left without a record.
OneRecordPerFlushUnlessAppendFails ==
    [][/\ \A t \in Threads :
            LogStep(t)
            => \/ RecordOf(t) /\ ret' = Ok(pc[t].s, pc[t].op)
               \/ log' = log /\ ret' = Raised(pc[t].s, pc[t].op, "OSError")
       /\ (\A t \in Threads : ~LogStep(t)) => log' = log
      ]_vars

\* the log holds the record of an autocommit set followed by the record of
\* a transaction that deleted a key
OneRecordPerFlushWitness ==
    /\ Len(log) = 2
    /\ log[1].type = "autocommit" /\ log[1].writes # Empty
    /\ log[2].type = "transaction" /\ log[2].deletes # <<>>
    /\ ret.kind = "ok" /\ ret.op = "commit"

\* no connection keeps uncommitted changes once the call that made them is over
NoPendingWhenIdle == \A t \in Threads : ThreadIdle(t) => conn[t].mode # "write"

\* a successful flush of an autocommit call commits exactly its mutation
AutocommitApplies(t) ==
    /\ (SetFlush(t) /\ pc'[t].phase = "set_log")
          => store' = Put(store, pc[t].key, Dumps(pc[t].val))
    /\ (DeleteFlush(t) /\ pc'[t].phase = "delete_log")
          => store' = Drop(store, pc[t].key)

\* an autocommit call that fails at its statement or at its flush raises,
\* with the committed table as it was and nothing uncommitted on the connection
AutocommitFailsClean(t) ==
    /\ \A s \in Sessions, k \in Keys :
          (depth(s) = 0 /\ ThreadIdle(t)' /\ left' # left
             /\ ((\E v \in Values : Set(s, t, k, v)) \/ Delete(s, t, k)))
          => /\ ret'.kind \in {"TypeError", "OperationalError"}
             /\ store' = store
             /\ conn'[t].view = conn[t].view /\ conn'[t].mode # "write"
    /\ ((SetFlush(t) \/ DeleteFlush(t)) /\ ThreadIdle(t)')
          => /\ ret' = Raised(pc[t].s, pc[t].op, "OperationalError")
             /\ store' = store
             /\ conn'[t] = CleanConn

\* C20 as stated: autocommit set/delete is an atomic unit that surfaces
\* failure. The call returns success with its mutation committed, or raises
\* with its mutation not committed - so a call whose mutation is committed
\* ends in success; and the mutation of a call that failed is on no
\* connection for a later operation to commit.
AutocommitAtomicUnit ==
    /\ NoPendingWhenIdle
    /\ [][\A t \in Threads :
            /\ NoPendingWhenIdle'
            /\ AutocommitApplies(t)
            /\ AutocommitFailsClean(t)
            /\ (SetLog(t) \/ DeleteLog(t)) => ret' = Ok(pc[t].s, pc[t].op)
       ]_vars

\* C20 amended: the same, with the third outcome: the call raises the file
\* error of a failed log append, with its mutation committed.
AutocommitAtomicUnitOrLogFailure ==
    /\ NoPendingWhenIdle
    /\ [][\A t \in Threads :
            /\ NoPendingWhenIdle'
            /\ AutocommitApplies(t)
            /\ AutocommitFailsClean(t)
            /\ (SetLog(t) \/ DeleteLog(t))
                  => /\ ret' \in {Ok(pc[t].s, pc[t].op),
                                  Raised(pc[t].s, pc[t].op, "OSError")}
                     /\ store' = store
       ]_vars

\* the only call made, an autocommit set, has failed at its flush: nothing is
\* stored, logged or left on a connection
AutocommitFailureWitness ==
    /\ left = MaxOps - 1
    /\ ret.op = "set" /\ ret.kind = "OperationalError"
    /\ \A t \in Threads : ThreadIdle(t) /\ conn[t] = CleanConn
    /\ store = Empty /\ log = <<>>

\* C21: read-committed, not snapshot. A get by a session inside a transaction,
\* for a key none of its layers stages, returns the value the committed table
\* holds for the key at that moment (so a commit by another session that has
\* landed since the previous get shows), and so never a value that another
\* session has only staged.
ReadCommittedNotSnapshot ==
    [][\A s \in Sessions, t \in Threads, k \in Keys :
        (depth(s) >= 1 /\ ~Staged(s, k) /\ Get(s, t, k))
        => /\ ret' = Returned(s, "get", Committed(k))
           /\ \A s2 \in Sessions \ {s} :
                 (Staged(s2, k) /\ Resolve(stack[s2], k) # Committed(k))
                 => ret'.val # Resolve(stack[s2], k)
      ]_vars

\* The layers of a stack below its top.
Lower(st) == SubSeq(st, 1, Len(st) - 1)

\* Layer b differs from layer a at most in what it says about key k.
SameButFor(a, b, k) ==
    /\ Drop(a.writes, k) = Drop(b.writes, k)
    /\ a.deleted \ {k} = b.deleted \ {k}

\* C22: staged operations have no durable effect. begin, rollback, and a set
\* or delete at depth >= 1 leave the committed table and the commit log as
\* they were; a set or delete at depth >= 1 keeps the depth and the lower
\* layers, and changes the top layer only in what it says about the given key
\* (set: the key is written with the value and not deleted; delete: the key
\* is deleted and not written).
StagedOpsNotDurable ==
    [][\A s \in Sessions, t \in Threads :
        /\ (Begin(s, t) \/ Rollback(s, t)) => (store' = store /\ log' = log)
        /\ \A k \in Keys :
             /\ (depth(s) >= 1 /\ Delete(s, t, k))
                => /\ store' = store /\ log' = log
                   /\ Len(stack'[s]) = depth(s)
                   /\ Lower(stack'[s]) = Lower(stack[s])
                   /\ SameButFor(Top(stack[s]), Top(stack'[s]), k)
                   /\ k \in Top(stack'[s]).deleted
                   /\ k \notin DOMAIN Top(stack'[s]).writes
             /\ \A v \in Values :
                  (depth(s) >= 1 /\ Set(s, t, k, v))
                  => /\ store' = store /\ log' = log
                     /\ Len(stack'[s]) = depth(s)
                     /\ Lower(stack'[s]) = Lower(stack[s])
                     /\ SameButFor(Top(stack[s]), Top(stack'[s]), k)
                     /\ k \notin Top(stack'[s]).deleted
                     /\ k \in DOMAIN Top(stack'[s]).writes
                     /\ Top(stack'[s]).writes[k] = v
      ]_vars

\* A delete has been staged at depth 2 in a layer that still holds a write of
\* another key, above a lower layer that is not empty.
StagedOpsWitness ==
    \E s \in Sessions, k \in Keys :
        /\ ret = Ok(s, "delete")
        /\ depth(s) = 2
        /\ k \in Top(stack[s]).deleted
        /\ DOMAIN Top(stack[s]).writes # {}
        /\ stack[s][1] # NewLayer

\* C23: commit is transparent to the committing session's own view. An inner
\* commit leaves every get of the session as it was. The flush of an outermost
\* commit, the step at which the batch lands and before any other session can
\* commit again, leaves the session's get of every key, on the committing
\* thread and on every thread free to serve the session next, equal to what
\* the session read before the commit: None for a key of D, W[k] for a key of
\* W, and the committed value it read before for every other key.
CommitTransparentToOwnView ==
    [][/\ \A s \in Sessions, t \in Threads :
            (depth(s) >= 2 /\ Commit(s, t))
            => \A u \in Threads, k \in Keys : get(s, u, k)' = get(s, u, k)
       /\ \A s \in Sessions, t \in Threads :
            (pc[t].s = s /\ CommitFlush(t) /\ pc'[t].phase = "commit_log")
            => \A u \in Threads, k \in Keys :
                 (u = t \/ ThreadIdle(u))
                 => get(s, u, k)' = IF k \in pc[t].D THEN None
                                    ELSE IF k \in DOMAIN pc[t].W THEN pc[t].W[k]
                                    ELSE get(s, u, k)
      ]_vars

\* C24: session stacks are private. A step changes the layer stack (and so the
\* depth) of a session only if it is a begin, set, delete, commit or rollback
\* call of that very session; calls of other sessions, whether they return or
\* raise, gets, depth reads, and the flush and log steps of any call leave it
\* as it was.
SessionStacksPrivate ==
    [][\A s \in Sessions :
        stack'[s] # stack[s]
        => \E t \in Threads :
              \/ Begin(s, t) \/ Commit(s, t) \/ Rollback(s, t)
              \/ \E k \in Keys :
                    \/ Delete(s, t, k)
                    \/ \E v \in Values : Set(s, t, k, v)
      ]_vars

\* One session is two levels deep with nothing staged while another session,
\* one level deep, has just staged a write.
SessionStacksWitness ==
    \E s \in Sessions : \E s2 \in Sessions \ {s} :
        /\ stack[s] = <<NewLayer, NewLayer>>
        /\ depth(s2) = 1
        /\ Top(stack[s2]).writes # Empty
        /\ ret = Ok(s2, "set")

\* The table after one record of the commit log is applied to it: the keys of
\* "deletes" removed, the pairs of "writes" upserted.
ApplyRecord(rows, r) ==
    LET gone == {r.deletes[i] : i \in DOMAIN r.deletes}
    IN [k \in ((DOMAIN rows) \ gone) \cup DOMAIN r.writes |->
           IF k \in DOMAIN r.writes THEN r.writes[k] ELSE rows[k]]

\* The table after the records are applied in log order.
RECURSIVE Replay(_, _)
Replay(records, rows) ==
    IF records = <<>> THEN rows
    ELSE Replay(Tail(records), ApplyRecord(rows, Head(records)))

\* C25: commit log order matches store-apply order. Once every call has
\* returned, if each call made so far has appended its record (each of them
\* flushed to the store and none of the appends failed), replaying the log's
\* records in order onto the initial, empty table gives the committed table.
LogOrderMatchesApplyOrder ==
    ((\A t \in Threads : ThreadIdle(t)) /\ Len(log) = MaxOps - left)
    => Replay(log, Empty) = store

\* The threads whose call has flushed to the store and not yet appended its
\* record.
Pending ==
    {t \in Threads : pc[t].phase \in {"set_log", "delete_log", "commit_log"}}

\* What the call running on thread t has written and deleted in its flush.
FlushedWrites(t) ==
    CASE pc[t].op = "set" -> Put(Empty, pc[t].key, pc[t].val)
      [] pc[t].op = "delete" -> Empty
      [] pc[t].op = "commit" -> pc[t].W

FlushedDeletes(t) ==
    CASE pc[t].op = "set" -> {}
      [] pc[t].op = "delete" -> {pc[t].key}
      [] pc[t].op = "commit" -> pc[t].D

\* The log is in step with the table: replaying its records in order, and
\* then the flush of the one call that has yet to append its record if there
\* is one, gives the committed table.
LogInStep ==
    IF Pending = {} THEN Replay(log, Empty) = store
    ELSE \E t \in Pending :
            /\ Pending = {t}
            /\ NetEffect(Replay(log, Empty), FlushedWrites(t), FlushedDeletes(t))
                  = store

\* An append has failed in this step: a call that had flushed returns and the
\* log is as it was.
AppendFailed ==
    \E t \in Pending : pc'[t].phase = "idle" /\ log' = log

\* C25 as the code has it: records are appended in the order in which the
\* appends are called, each after its own flush, and the flush and the append
\* are separate steps. The log starts in step with the table, and it stays in
\* step through every step in which no append fails and at most one call is
\* between its flush and its append, before and after; so as long as no
\* flush lands while another call has yet to append its record, replaying the
\* log in order gives the committed table once every call has returned.
LogOrderMatchesApplyOrderUnlessOverlap ==
    /\ LogInStep
    /\ [][((log' # log \/ store' # store \/ pc' # pc)
           /\ Cardinality(Pending) <= 1 /\ Cardinality(Pending') <= 1
           /\ LogInStep /\ ~AppendFailed)
          => LogInStep'
         ]_vars

\* Every call has returned, each of the two calls made has its record in the
\* log, the two records write different values to one key, and replaying
\* them in log order gives the committed table.
LogOrderWitness ==
    /\ \A t \in Threads : ThreadIdle(t)
    /\ Len(log) = 2
    /\ left = MaxOps - 2
    /\ \E k \in Keys :
          /\ k \in DOMAIN log[1].writes
          /\ k \in DOMAIN log[2].writes
          /\ log[1].writes[k] # log[2].writes[k]
    /\ Replay(log, Empty) = store

====
